---- MODULE Spec2Model ----
(***************************************************************************)
(* Cycle-accurate model of rtl/spi_ram_dual.py (SpiRamDualQuad): the       *)
(* Wishbone-to-SPI bridge driving two paired serial RAM devices.           *)
(*                                                                         *)
(* One step of the model is one rising edge of the system clock.  The      *)
(* registers of the Migen module (fsm state, cycle_counter, is_write,      *)
(* next_addr, sr) are variables; its combinational signals (cs_n, clk,     *)
(* dq_oe, gang_outputs, bus.ack, bus.dat_r, dq1.o, dq2.o) are operators    *)
(* over them.  The Wishbone master and the two devices are the             *)
(* environment.  Words wider than 31 bits are kept as bit vectors, held    *)
(* as their bytes, most significant byte first; bit i of a vector is the   *)
(* bit of weight 2^i.                                                      *)
(***************************************************************************)
EXTENDS Integers, Naturals, Sequences, FiniteSets, TLC

VARIABLES
    fmt_cmd,        \* argument cmd of a call of _format_cmd
    fmt_width,      \* argument width of that call
    fmt_out,        \* its return value, <<>> before the call
    cap_log,        \* the <<dq1.i, dq2.i>> captured so far in the present RECV_DATA phase
    pads_1,         \* len(pads_1.dq), the lane count of device 1
    pads_2,         \* len(pads_2.dq), the lane count of device 2
    dummy,          \* constructor argument dummy
    endianness,     \* constructor argument endianness
    built,          \* outcome of __init__: "pending", "ok", "AssertionError", "KeyError"
    state,          \* fsm state
    cycle_counter,  \* Signal(5)
    is_write,       \* Signal()
    next_addr,      \* Signal(32)
    sr,             \* Signal(max(cmd_width, addr_width, wbone_width)), a bit vector
    bus_stb,        \* bus.cyc & bus.stb as driven by the master in this cycle
    bus_we,         \* bus.we
    bus_adr,        \* bus.adr
    bus_dat_w,      \* bus.dat_w, a bit vector
    dev_addr,       \* per device: the address bits it has been clocked in this session
    dev_pos,        \* number of data groups each device has transferred this session
    dev_mem,        \* per device: its memory, one lanes-bit group per cell
    age,            \* cycles the pending request has been pending, this cycle included
    origin,         \* fsm state of the first cycle on which the pending request was pending
    prev,           \* the last acknowledged transaction
    phase_len,      \* cycles of the present occupancy of the fsm state, this cycle included
    since_cmd       \* cycles since entry into SEND_CMD, this cycle included (0: no cold transaction running)

vars == <<pads_1, pads_2, dummy, endianness, built, state, cycle_counter, is_write,
          next_addr, sr, bus_stb, bus_we, bus_adr, bus_dat_w, dev_addr, dev_pos,
          dev_mem, age, origin, prev, phase_len, since_cmd,
          fmt_cmd, fmt_width, fmt_out, cap_log>>

fmtVars == <<fmt_cmd, fmt_width, fmt_out>>
cfgVars == <<pads_1, pads_2, dummy, endianness>>
regVars == <<state, cycle_counter, is_write, next_addr, sr>>
busVars == <<bus_stb, bus_we, bus_adr, bus_dat_w>>
devVars == <<dev_addr, dev_pos, dev_mem>>
obsVars == <<age, origin, prev, phase_len, since_cmd>>

----------------------------------------------------------------------------
(* Bounds of the model *)

MaxAddr == 2        \* bus addresses 0..MaxAddr are requested
MaxPadWidth == 5    \* pad widths 0..MaxPadWidth are offered to the constructor
AgeCap == 40        \* the cycle observers saturate here
WaitCap == 3        \* occupancy lengths of IDLE and the two WAIT states saturate here

(* Program constants *)

_FAST_READ == 11    \* 0x0b
_DIOFR == 187       \* 0xbb
_QIOFR == 235       \* 0xeb
_WRITE == 2         \* 0x02
_QIOW == 56         \* 0x38
addr_width == 24
wbone_width == 32   \* len(bus.dat_r) of wishbone.Interface()
CounterBits == 5    \* cycle_counter = Signal(5)
BusAdrBits == 30    \* len(bus.adr) of wishbone.Interface()
DefaultDummy == 5   \* dummy=5

----------------------------------------------------------------------------
(* Bit vectors *)

Pow2(n) == 2^n

Max(a, b) == IF a < b THEN b ELSE a

\* bit i of the non-negative integer v
Bit(v, i) == (v \div Pow2(i)) % 2

\* the n-bit vector (n a multiple of 8) whose bit i is f[i]
Vec(n, f) ==
    [k \in 1..(n \div 8) |->
        LET lo == 8 * ((n \div 8) - k)
        IN  f[lo] + 2 * f[lo + 1] + 4 * f[lo + 2] + 8 * f[lo + 3] + 16 * f[lo + 4]
              + 32 * f[lo + 5] + 64 * f[lo + 6] + 128 * f[lo + 7]]

\* the number of bits of a bit vector
Width(bits) == 8 * Len(bits)

\* bit i of a bit vector
At(bits, i) == Bit(bits[Len(bits) - (i \div 8)], i % 8)

RECURSIVE ValueOfFrom(_, _, _)
ValueOfFrom(bits, i, hi) ==
    IF i >= hi THEN 0 ELSE At(bits, i) + 2 * ValueOfFrom(bits, i + 1, hi)

\* the integer held by bits lo..hi-1 of a bit vector
Slice(bits, lo, hi) == ValueOfFrom(bits, lo, hi)

\* a bit vector assigned to an n-bit signal: truncated or zero-extended
Resize(bits, n) ==
    Vec(n, [i \in 0..(n - 1) |-> IF i < Width(bits) THEN At(bits, i) ELSE 0])

\* the word whose bytes, most significant first, are the sequence bytes
WordOfBytes(bytes) == bytes

----------------------------------------------------------------------------
(* _format_cmd: the opcode spread over spi_width lanes, lane 0 carrying it *)

ClearBit(c, pos) ==
    Vec(Width(c), [i \in 0..(Width(c) - 1) |-> IF i = pos THEN 0 ELSE At(c, i)])

RECURSIVE FormatLoop(_, _, _, _)
FormatLoop(c, cmd, width, b) ==
    IF b >= 8 THEN c
    ELSE FormatLoop(IF (cmd \div Pow2(b)) % 2 = 0 THEN ClearBit(c, b * width) ELSE c,
                    cmd, width, b + 1)

_format_cmd_FromOne(cmd, width) ==
    FormatLoop(Vec(8 * width, [i \in 0..(8 * width - 1) |-> 1]), cmd, width, 1)

_format_cmd(cmd, width) ==
    FormatLoop(Vec(8 * width, [i \in 0..(8 * width - 1) |-> 1]), cmd, width, 0)

----------------------------------------------------------------------------
(* Construction: SpiRamDualQuad.__init__ up to the first statement that raises *)

read_cmd_params ==
    [w \in {4, 2, 1} |->
        CASE w = 4 -> <<_format_cmd(_QIOFR, 4), 4 * 8>>
          [] w = 2 -> <<_format_cmd(_DIOFR, 2), 2 * 8>>
          [] w = 1 -> <<_format_cmd(_FAST_READ, 1), 1 * 8>>]

write_cmd_params ==
    [w \in {4, 1} |->
        CASE w = 4 -> _format_cmd(_QIOW, 4)
          [] w = 1 -> _format_cmd(_WRITE, 1)]

InitResult(p1, p2) ==
    IF ~(p1 >= 2) THEN "AssertionError"
    ELSE IF ~(p1 = p2) THEN "AssertionError"
    ELSE IF p1 \notin DOMAIN read_cmd_params THEN "KeyError"
    ELSE IF p1 \notin DOMAIN write_cmd_params THEN "KeyError"
    ELSE "ok"

spi_width == pads_1
read_cmd == read_cmd_params[spi_width][1]
cmd_width == read_cmd_params[spi_width][2]
write_cmd == write_cmd_params[spi_width]
SrWidth == Max(cmd_width, Max(addr_width, wbone_width))

----------------------------------------------------------------------------
(* Combinational signals *)

\* the exit comparisons of the five phase states
CmdDone == cycle_counter = cmd_width \div spi_width - 1
AddrDone == cycle_counter = addr_width \div spi_width - 1
SendDataDone_Late == cycle_counter = (wbone_width \div spi_width) \div 2
SendDataDone == cycle_counter = (wbone_width \div spi_width) \div 2 - 1
DummyDone_Early == cycle_counter + 1 = dummy
DummyDone == cycle_counter = dummy
RecvDataDone_Early == cycle_counter = (wbone_width \div spi_width) \div 2 - 1
RecvDataDone == cycle_counter = (wbone_width \div spi_width) \div 2

cs_n_PhasesOnly ==
    IF state \in {"SEND_CMD", "SEND_ADDR", "SEND_DATA", "RECV_DATA_DUMMY", "RECV_DATA"}
    THEN 0 ELSE 1

\* cs_n = Signal(reset=1), driven to 0 by the states that assign it
cs_n ==
    IF state \in {"SEND_CMD", "SEND_ADDR", "SEND_DATA", "RECV_DATA_DUMMY", "RECV_DATA",
                  "WAIT_SEND_MORE", "WAIT_RECV_MORE"} THEN 0 ELSE 1

clk_InWaits ==
    state \in {"SEND_CMD", "SEND_ADDR", "SEND_DATA", "RECV_DATA_DUMMY", "RECV_DATA",
               "WAIT_SEND_MORE", "WAIT_RECV_MORE"}

\* clk.eq(ClockSignal()): the device clock runs
clk == state \in {"SEND_CMD", "SEND_ADDR", "SEND_DATA", "RECV_DATA_DUMMY", "RECV_DATA"}

dq_oe == state \in {"SEND_CMD", "SEND_ADDR", "SEND_DATA"}

gang_outputs == state \in {"SEND_CMD", "SEND_ADDR"}

cycle_counter_ce ==
    state \in {"SEND_CMD", "SEND_ADDR", "SEND_DATA", "RECV_DATA_DUMMY", "RECV_DATA"}

cycle_counter_reset ==
    \/ state = "IDLE"
    \/ state = "SEND_CMD" /\ CmdDone
    \/ state = "SEND_ADDR" /\ AddrDone
    \/ state = "SEND_DATA" /\ SendDataDone
    \/ state = "RECV_DATA_DUMMY" /\ DummyDone
    \/ state = "RECV_DATA" /\ RecvDataDone

bus_ack ==
    \/ state = "SEND_DATA" /\ SendDataDone
    \/ state = "RECV_DATA" /\ RecvDataDone

\* reverse_bytes(sr)
reverse_bytes(bits, n) ==
    Vec(n, [i \in 0..(n - 1) |->
        At(bits, 8 * ((n \div 8) - 1 - (i \div 8)) + (i % 8))])

bus_dat_r == IF endianness = "big" THEN sr ELSE reverse_bytes(sr, SrWidth)

\* dq1.o = sr[-spi_width:]
dq1_o == Slice(sr, SrWidth - spi_width, SrWidth)

dq2_o_Ganged == Slice(sr, SrWidth - spi_width, SrWidth)

\* dq2.o = sr[-spi_width:] when ganged, else sr[-(spi_width*2):-spi_width]
dq2_o ==
    IF gang_outputs THEN Slice(sr, SrWidth - spi_width, SrWidth)
    ELSE Slice(sr, SrWidth - spi_width * 2, SrWidth - spi_width)

RecvMoreTarget_Dummy == "RECV_DATA_DUMMY"

\* WAIT_RECV_MORE: NextState of a read at next_addr
RecvMoreTarget == "RECV_DATA"

\* WAIT_SEND_MORE: NextState of a write at next_addr
SendMoreTarget == "SEND_DATA"

MismatchTarget_Cmd == "SEND_CMD"

\* WAIT_SEND_MORE, WAIT_RECV_MORE: NextState of any other pending request
MismatchTarget == "IDLE"

SendMoreHit_AnyAddr == bus_we

\* WAIT_SEND_MORE: If(bus.adr == next_addr, If(bus.we, ...))
SendMoreHit == bus_adr = next_addr /\ bus_we

RecvMoreHit_Polarity == bus_adr = next_addr /\ bus_we

\* WAIT_RECV_MORE: If(bus.adr == next_addr, If(~bus.we, ...))
RecvMoreHit == bus_adr = next_addr /\ ~bus_we

CounterNext_FreeRunning ==
    IF cycle_counter_reset THEN 0
    ELSE (cycle_counter + 1) % Pow2(CounterBits)

\* the sync block of cycle_counter
CounterNext ==
    IF cycle_counter_reset THEN 0
    ELSE IF cycle_counter_ce THEN (cycle_counter + 1) % Pow2(CounterBits)
    ELSE cycle_counter

\* sr <= Cat(Signal(n), sr): n zero bits enter below, the top n bits are lost
ShiftOut(n) ==
    Vec(SrWidth, [i \in 0..(SrWidth - 1) |-> IF i < n THEN 0 ELSE At(sr, i - n)])

\* next_addr <= bus.adr + 1: a 30-bit address plus one fits Signal(32) untruncated
NextAddr == bus_adr + 1

\* sr <= bus.adr << 1
AdrShifted ==
    Vec(SrWidth, [i \in 0..(SrWidth - 1) |->
        IF i >= 1 /\ i <= BusAdrBits THEN Bit(bus_adr, i - 1) ELSE 0])

\* sr <= Cat(dq1.i, dq2.i, sr[:-spi_width*2])
ShiftIn(i1, i2) ==
    Vec(SrWidth, [i \in 0..(SrWidth - 1) |->
        IF i < spi_width THEN Bit(i1, i)
        ELSE IF i < 2 * spi_width THEN Bit(i2, i - spi_width)
        ELSE At(sr, i - 2 * spi_width)])

----------------------------------------------------------------------------
(* The two devices: each keeps the address it is clocked during SEND_ADDR,  *)
(* stores the group it is sent in each SEND_DATA cycle, and returns the     *)
(* stored groups in the same order in the capturing cycles of RECV_DATA.    *)

Devices == {1, 2}

\* cells of a device memory: one lanes-bit group each
MemCells == ((wbone_width \div spi_width) \div 2) * (MaxAddr + 1)

\* the cell a device is at: 8/spi_width groups per addressed byte
Cell(d) == ((dev_addr[d] * (8 \div spi_width) + dev_pos) % MemCells) + 1

\* dq1.i, dq2.i while the device is driving a stored group
dq_i(d) == dev_mem[d][Cell(d)]

\* what a device may drive when it is not returning a stored group
FloatValues == {0, Pow2(spi_width) - 1}

DevIdle == UNCHANGED devVars

\* SEND_CMD: the command opens a session
DevCmd ==
    /\ dev_addr' = [d \in Devices |-> 0]
    /\ dev_pos' = 0
    /\ UNCHANGED dev_mem

\* SEND_ADDR: each device shifts in the group on its own lanes
DevAddr ==
    /\ dev_addr' = [d \in Devices |->
            (dev_addr[d] * Pow2(spi_width) + (IF d = 1 THEN dq1_o ELSE dq2_o))
                % Pow2(addr_width)]
    /\ UNCHANGED <<dev_pos, dev_mem>>

\* SEND_DATA: each device stores the group on its own lanes
DevStore ==
    /\ dev_mem' = [d \in Devices |->
            [dev_mem[d] EXCEPT ![Cell(d)] = IF d = 1 THEN dq1_o ELSE dq2_o]]
    /\ dev_pos' = dev_pos + 1
    /\ UNCHANGED dev_addr

\* RECV_DATA: a stored group has been returned
DevLoad ==
    /\ dev_pos' = dev_pos + 1
    /\ UNCHANGED <<dev_addr, dev_mem>>

----------------------------------------------------------------------------
(* The Wishbone master: holds a request until it is acknowledged, then      *)
(* presents the next request or none.                                       *)

Addrs == 0..MaxAddr

DataValues == {WordOfBytes(<<18, 52, 86, 120>>), WordOfBytes(<<254, 220, 186, 152>>)}

ZeroWord == Vec(wbone_width, [i \in 0..(wbone_width - 1) |-> 0])

Requests ==
    [we : {FALSE}, adr : Addrs, dat_w : {ZeroWord}]
        \cup [we : {TRUE}, adr : Addrs, dat_w : DataValues]

NoPrev ==
    [valid |-> FALSE, we |-> FALSE, adr |-> 0, dat_w |-> ZeroWord, cycles |-> 0,
     cold |-> FALSE]

Saturate(n) == IF n < AgeCap THEN n + 1 ELSE AgeCap

Master ==
    IF bus_stb /\ ~bus_ack
    THEN /\ UNCHANGED <<busVars, origin, prev>>
         /\ age' = Saturate(age)
    ELSE /\ prev' = IF bus_ack
                    THEN [valid |-> TRUE, we |-> bus_we, adr |-> bus_adr, dat_w |-> bus_dat_w,
                          cycles |-> age, cold |-> since_cmd > 0]
                    ELSE prev
         /\ \/ /\ bus_stb' = FALSE
               /\ bus_we' = FALSE
               /\ bus_adr' = 0
               /\ bus_dat_w' = ZeroWord
               /\ age' = 0
               /\ origin' = "none"
            \/ \E r \in Requests :
               /\ bus_stb' = TRUE
               /\ bus_we' = r.we
               /\ bus_adr' = r.adr
               /\ bus_dat_w' = r.dat_w
               /\ age' = 1
               /\ origin' = state'

(* Observers of the cycle counts *)

Resting == {"IDLE", "WAIT_SEND_MORE", "WAIT_RECV_MORE"}

Observe ==
    /\ phase_len' = IF state' # state THEN 1
                    ELSE IF state \in Resting
                         THEN (IF phase_len < WaitCap THEN phase_len + 1 ELSE WaitCap)
                         ELSE Saturate(phase_len)
    /\ since_cmd' = IF state' \in Resting THEN 0
                    ELSE IF state' = "SEND_CMD" /\ state # "SEND_CMD" THEN 1
                    ELSE IF since_cmd = 0 THEN 0
                    ELSE Saturate(since_cmd)

Environment == Master /\ Observe

\* the captures of the RECV_DATA phase in progress, forgotten when the phase is left
Captured(i1, i2) == IF RecvDataDone THEN <<>> ELSE Append(cap_log, <<i1, i2>>)

----------------------------------------------------------------------------
(* Initial state and construction *)

DummyValues == {0, DefaultDummy, Pow2(CounterBits)}

Init ==
    /\ pads_1 \in 0..MaxPadWidth
    /\ pads_2 \in 0..MaxPadWidth
    /\ dummy \in DummyValues
    /\ endianness \in {"big", "little"}
    /\ built = "pending"
    /\ state = "IDLE"
    /\ cycle_counter = 0
    /\ is_write = FALSE
    /\ next_addr = 0
    /\ sr = ZeroWord
    /\ bus_stb = FALSE
    /\ bus_we = FALSE
    /\ bus_adr = 0
    /\ bus_dat_w = ZeroWord
    /\ dev_addr = [d \in Devices |-> 0]
    /\ dev_pos = 0
    /\ dev_mem = [d \in Devices |-> <<>>]
    /\ age = 0
    /\ origin = "none"
    /\ prev = NoPrev
    /\ phase_len = 1
    /\ since_cmd = 0
    /\ fmt_cmd = 0
    /\ fmt_width = 1
    /\ fmt_out = <<>>
    /\ cap_log = <<>>

Construct ==
    /\ built = "pending"
    /\ built' = InitResult(pads_1, pads_2)
    /\ dev_mem' = IF built' = "ok"
                  THEN [d \in Devices |-> [c \in 1..MemCells |-> 0]]
                  ELSE dev_mem
    /\ UNCHANGED <<cfgVars, regVars, busVars, dev_addr, dev_pos, obsVars, fmtVars, cap_log>>

----------------------------------------------------------------------------
(* The fsm: one action per state, each a whole clock cycle *)

IDLE ==
    /\ built = "ok"
    /\ state = "IDLE"
    /\ cycle_counter' = CounterNext
    /\ IF bus_stb
       THEN /\ state' = "SEND_CMD"
            /\ sr' = IF bus_we THEN Resize(write_cmd, SrWidth)
                     ELSE Resize(read_cmd, SrWidth)
       ELSE UNCHANGED <<state, sr>>
    /\ UNCHANGED <<is_write, next_addr, cfgVars, built, fmtVars, cap_log>>
    /\ DevIdle
    /\ Environment

SEND_CMD ==
    /\ built = "ok"
    /\ state = "SEND_CMD"
    /\ cycle_counter' = CounterNext
    /\ is_write' = bus_we
    /\ IF CmdDone
       THEN /\ sr' = AdrShifted
            /\ next_addr' = NextAddr
            /\ state' = "SEND_ADDR"
       ELSE /\ sr' = ShiftOut(cmd_width - wbone_width + spi_width)
            /\ UNCHANGED <<next_addr, state>>
    /\ UNCHANGED <<cfgVars, built, fmtVars, cap_log>>
    /\ DevCmd
    /\ Environment

SEND_ADDR ==
    /\ built = "ok"
    /\ state = "SEND_ADDR"
    /\ cycle_counter' = CounterNext
    /\ IF AddrDone
       THEN IF is_write
            THEN /\ state' = "SEND_DATA"
                 /\ sr' = Resize(bus_dat_w, SrWidth)
            ELSE /\ state' = "RECV_DATA_DUMMY"
                 /\ sr' = ShiftOut(cmd_width - wbone_width + spi_width)
       ELSE /\ sr' = ShiftOut(cmd_width - wbone_width + spi_width)
            /\ UNCHANGED state
    /\ UNCHANGED <<is_write, next_addr, cfgVars, built, fmtVars, cap_log>>
    /\ DevAddr
    /\ Environment

SEND_DATA ==
    /\ built = "ok"
    /\ state = "SEND_DATA"
    /\ cycle_counter' = CounterNext
    /\ sr' = ShiftOut(cmd_width - wbone_width + (spi_width * 2))
    /\ state' = IF SendDataDone THEN "WAIT_SEND_MORE" ELSE state
    /\ UNCHANGED <<is_write, next_addr, cfgVars, built, fmtVars, cap_log>>
    /\ DevStore
    /\ Environment

RECV_DATA_DUMMY ==
    /\ built = "ok"
    /\ state = "RECV_DATA_DUMMY"
    /\ cycle_counter' = CounterNext
    /\ state' = IF DummyDone THEN "RECV_DATA" ELSE state
    /\ UNCHANGED <<sr, is_write, next_addr, cfgVars, built, fmtVars, cap_log>>
    /\ DevIdle
    /\ Environment

RECV_DATA ==
    /\ built = "ok"
    /\ state = "RECV_DATA"
    /\ cycle_counter' = CounterNext
    /\ IF cycle_counter < (wbone_width \div spi_width) \div 2
       THEN /\ sr' = ShiftIn(dq_i(1), dq_i(2))
            /\ cap_log' = Captured(dq_i(1), dq_i(2))
            /\ DevLoad
       ELSE /\ \E i1 \in FloatValues, i2 \in FloatValues :
                  /\ sr' = ShiftIn(i1, i2)
                  /\ cap_log' = Captured(i1, i2)
            /\ DevIdle
    /\ state' = IF RecvDataDone THEN "WAIT_RECV_MORE" ELSE state
    /\ UNCHANGED <<is_write, next_addr, cfgVars, built, fmtVars>>
    /\ Environment

WAIT_SEND_MORE ==
    /\ built = "ok"
    /\ state = "WAIT_SEND_MORE"
    /\ cycle_counter' = CounterNext
    /\ IF bus_stb
       THEN IF SendMoreHit
            THEN /\ next_addr' = NextAddr
                 /\ state' = SendMoreTarget
            ELSE /\ state' = MismatchTarget
                 /\ UNCHANGED next_addr
       ELSE UNCHANGED <<state, next_addr>>
    /\ UNCHANGED <<sr, is_write, cfgVars, built, fmtVars, cap_log>>
    /\ DevIdle
    /\ Environment

WAIT_RECV_MORE ==
    /\ built = "ok"
    /\ state = "WAIT_RECV_MORE"
    /\ cycle_counter' = CounterNext
    /\ IF bus_stb
       THEN IF RecvMoreHit
            THEN /\ next_addr' = NextAddr
                 /\ state' = RecvMoreTarget
            ELSE /\ state' = MismatchTarget
                 /\ UNCHANGED next_addr
       ELSE UNCHANGED <<state, next_addr>>
    /\ UNCHANGED <<sr, is_write, cfgVars, built, fmtVars, cap_log>>
    /\ DevIdle
    /\ Environment

Tick ==
    \/ IDLE
    \/ SEND_CMD
    \/ SEND_ADDR
    \/ SEND_DATA
    \/ RECV_DATA_DUMMY
    \/ RECV_DATA
    \/ WAIT_SEND_MORE
    \/ WAIT_RECV_MORE

Next == Construct \/ Tick

Spec == Init /\ [][Next]_vars

\* the system clock never stops
FairSpec == Init /\ [][Next]_vars /\ WF_vars(Next)

----------------------------------------------------------------------------
(* _format_cmd on its own: every opcode at every lane count of read_cmd_params *)

Opcodes == 0..(Pow2(8) - 1)
FmtWidths == DOMAIN read_cmd_params

FmtInit ==
    /\ fmt_cmd \in Opcodes
    /\ fmt_width \in FmtWidths
    /\ fmt_out = <<>>
    /\ pads_1 = 4
    /\ pads_2 = 4
    /\ dummy = DefaultDummy
    /\ endianness = "big"
    /\ built = "pending"
    /\ state = "IDLE"
    /\ cycle_counter = 0
    /\ is_write = FALSE
    /\ next_addr = 0
    /\ sr = ZeroWord
    /\ bus_stb = FALSE
    /\ bus_we = FALSE
    /\ bus_adr = 0
    /\ bus_dat_w = ZeroWord
    /\ dev_addr = [d \in Devices |-> 0]
    /\ dev_pos = 0
    /\ dev_mem = [d \in Devices |-> <<>>]
    /\ age = 0
    /\ origin = "none"
    /\ prev = NoPrev
    /\ phase_len = 1
    /\ since_cmd = 0
    /\ cap_log = <<>>

Format ==
    /\ fmt_out = <<>>
    /\ fmt_out' = _format_cmd(fmt_cmd, fmt_width)
    /\ UNCHANGED <<fmt_cmd, fmt_width, cfgVars, built, regVars, busVars, devVars, obsVars,
                   cap_log>>

FmtSpec == FmtInit /\ [][Format]_vars

----------------------------------------------------------------------------
(* Claims *)

\* the present cycle acknowledges a read that directly follows a write to the same address
ReadBackAck ==
    /\ built = "ok"
    /\ state = "RECV_DATA"
    /\ bus_ack
    /\ bus_stb
    /\ ~bus_we
    /\ prev.valid
    /\ prev.we
    /\ prev.adr = bus_adr

\* C1: a write of V to address A followed by a read of A presents readData = V on the
\* read's acknowledgment cycle, in big and in little mode.
C1_RoundTrip == ReadBackAck => bus_dat_r = prev.dat_w

\* the phase lengths the specification states
CmdLen == cmd_width \div spi_width
AddrLen == addr_width \div spi_width
DataLen == wbone_width \div (2 * spi_width)

\* a read at next_addr is pending in WAIT_RECV_MORE
ContinuedReadPending ==
    /\ built = "ok"
    /\ state = "WAIT_RECV_MORE"
    /\ bus_stb
    /\ ~bus_we
    /\ bus_adr = next_addr

\* C2 as stated: a read at nextExpectedAddress arriving in WaitMore(Read) skips SendCmd
\* and SendAddr but runs a fresh dummy window (RecvDummy) before RecvData.
C2_Original == [][ContinuedReadPending => state' = "RECV_DATA_DUMMY"]_vars

\* C2 amended: a read at nextExpectedAddress arriving in WaitMore(Read) skips SendCmd,
\* SendAddr and RecvDummy: the next cycle is the first cycle of RecvData, and
\* nextExpectedAddress becomes that address + 1.
C2_Amended ==
    [][ContinuedReadPending =>
          /\ state' = "RECV_DATA"
          /\ next_addr' = bus_adr + 1
          /\ since_cmd' = 0]_vars

\* first cycle of a RecvData phase entered by continuation
C2_Witness ==
    /\ state = "RECV_DATA"
    /\ phase_len = 1
    /\ origin = "WAIT_RECV_MORE"
    /\ since_cmd = 0
    /\ bus_stb /\ ~bus_we
    /\ prev.valid /\ ~prev.we /\ bus_adr = prev.adr + 1

\* the present cycle acknowledges a read that ran SendCmd and SendAddr
ColdReadAck ==
    /\ built = "ok"
    /\ state = "RECV_DATA"
    /\ bus_ack
    /\ since_cmd > 0

\* C3 as stated: a read that is no continuation takes
\* commandWidth/lanes + addressWidth/lanes + dummyCycles + dataWidth/(2*lanes) cycles
\* from entry into SendCmd to its acknowledgment cycle, that cycle included.
C3_Original == ColdReadAck => since_cmd = CmdLen + AddrLen + dummy + DataLen

\* C3 amended: on the acknowledgment cycle of a read that is no continuation the count
\* is commandWidth/lanes + addressWidth/lanes + (dummyCycles + 1) + (dataWidth/(2*lanes) + 1):
\* RecvDummy and RecvData each last one cycle more than stated.
C3_Amended == ColdReadAck => since_cmd = CmdLen + AddrLen + (dummy + 1) + (DataLen + 1)

C3_Witness == ColdReadAck /\ dummy = DefaultDummy /\ bus_stb /\ ~bus_we

\* the present cycle acknowledges a write
WriteAck == built = "ok" /\ state = "SEND_DATA" /\ bus_ack /\ bus_stb /\ bus_we

\* ... that was first pending in IDLE
ColdWriteAck == WriteAck /\ origin = "IDLE"

\* ... that was first pending in WAIT_RECV_MORE, after a read of the address below
WriteAfterReadAck ==
    /\ WriteAck
    /\ origin = "WAIT_RECV_MORE"
    /\ prev.valid /\ ~prev.we /\ bus_adr = prev.adr + 1

\* first pending cycle to acknowledgment of a write issued from Idle
ColdWriteCycles == 1 + CmdLen + AddrLen + DataLen

\* C4 as stated: a write at A+1 presented in WaitMore(Read) after a read at A re-runs
\* SendCmd, SendAddr and SendData and takes as many cycles, first pending cycle to
\* acknowledgment, as the same write issued cold from Idle.
C4_Original ==
    /\ ColdWriteAck => age = ColdWriteCycles
    /\ WriteAfterReadAck => since_cmd = CmdLen + AddrLen + DataLen /\ age = ColdWriteCycles

\* C4 amended: such a write re-runs Idle, SendCmd, SendAddr and SendData, and takes one
\* cycle more than the same write issued cold from Idle: the WaitMore(Read) cycle in
\* which the direction change is detected.
C4_Amended ==
    /\ ColdWriteAck => age = ColdWriteCycles
    /\ WriteAfterReadAck =>
          since_cmd = CmdLen + AddrLen + DataLen /\ age = ColdWriteCycles + 1

C4_Witness == WriteAfterReadAck /\ age > ColdWriteCycles

\* the present cycle acknowledges a read at A+1 that directly follows a read at A
ReadAfterReadAck ==
    /\ built = "ok"
    /\ state = "RECV_DATA"
    /\ bus_ack
    /\ origin = "WAIT_RECV_MORE"
    /\ prev.valid /\ ~prev.we /\ bus_adr = prev.adr + 1

\* C5 as stated: of a read at A followed immediately by a read at A+1 each is
\* acknowledged once, and the second takes strictly fewer cycles than the first,
\* SendCmd and SendAddr not being entered for it.
C5_Original ==
    /\ bus_ack => bus_stb
    /\ ReadAfterReadAck => since_cmd = 0 /\ age < prev.cycles

\* C5 amended: each is acknowledged once and SendCmd and SendAddr are not entered for
\* the second; its cycle count is strictly less than the first's when the first ran
\* SendCmd and SendAddr, and equal to it when the first was itself a continuation.
C5_Amended ==
    /\ bus_ack => bus_stb
    /\ ReadAfterReadAck =>
          /\ since_cmd = 0
          /\ bus_stb /\ ~bus_we
          /\ prev.cold => age < prev.cycles
          /\ ~prev.cold => age = prev.cycles

C5_Witness == ReadAfterReadAck /\ prev.cold /\ age < prev.cycles

\* C6: every SendData phase, entered from SendAddr or from WaitMore(Write), lasts
\* dataWidth/(2*lanes) cycles and asserts acknowledgment on its final cycle only.
C6_SendData ==
    /\ [](state = "SEND_DATA" => phase_len <= DataLen /\ (bus_ack <=> phase_len = DataLen))
    /\ [][state = "SEND_DATA" /\ state' # "SEND_DATA" => phase_len = DataLen /\ bus_ack]_vars
    /\ [][state = "SEND_DATA" /\ bus_ack => state' # "SEND_DATA"]_vars

\* final cycle of a SendData phase entered by continuation
C6_Witness ==
    /\ state = "SEND_DATA"
    /\ bus_ack
    /\ since_cmd = 0
    /\ origin = "WAIT_SEND_MORE"
    /\ phase_len = DataLen

DataStates == {"SEND_DATA", "RECV_DATA"}

PhaseStates == {"SEND_CMD", "SEND_ADDR", "SEND_DATA", "RECV_DATA_DUMMY", "RECV_DATA"}

\* acknowledgment is asserted for a pending request, in a data phase only
AckPlaced == bus_ack => bus_stb /\ state \in DataStates

\* acknowledgment is asserted on the final cycle of a data phase and lasts one cycle
AckPulse == [][bus_ack => state' \notin DataStates /\ ~bus_ack']_vars

\* C7: a requester that holds each request until it is acknowledged sees exactly one
\* acknowledgment pulse of one cycle per request; acknowledgment is never asserted in
\* Idle, SendCmd, SendAddr, RecvDummy or WaitMore, nor on a non-final cycle of a data phase.
C7_OneAck ==
    /\ []AckPlaced
    /\ AckPulse
    /\ [](bus_stb => <>bus_ack)

\* C8: every phase that is entered is left again, for every dummyCycles, so a request
\* held pending is eventually acknowledged.
C8_PhasesEnd ==
    /\ \A s \in PhaseStates : [](state = s => <>(state # s))
    /\ [](built = "ok" /\ bus_stb => <>(state \in Resting /\ ~bus_stb))

\* C9: construction succeeds exactly when both devices have the same lane count and
\* that count is 1, 2 or 4.
C9_Construction ==
    built # "pending" => (built = "ok" <=> (pads_1 = pads_2 /\ pads_1 \in {1, 2, 4}))

\* C10: chip-select is low exactly when the fsm is not in IDLE, so it stays low from
\* SendCmd through every continuation and wait, and every entry into SendCmd comes
\* from a cycle in which chip-select is high.
C10_ChipSelect ==
    /\ [](cs_n = 0 <=> state # "IDLE")
    /\ [][state' = "SEND_CMD" /\ state # "SEND_CMD" => cs_n = 1]_vars
    /\ [][state # "IDLE" /\ state' # "IDLE" => cs_n = 0 /\ cs_n' = 0]_vars

\* a wait within a session, after a continued read, with chip-select still low
C10_Witness ==
    /\ state = "WAIT_RECV_MORE"
    /\ phase_len = WaitCap
    /\ prev.valid /\ ~prev.cold
    /\ cs_n = 0

WaitStates == {"WAIT_SEND_MORE", "WAIT_RECV_MORE"}

\* C11: the device clock runs in exactly SendCmd, SendAddr, SendData, RecvDummy and
\* RecvData and is stopped in Idle and in both WaitMore states, so no clock edge
\* reaches the devices between an acknowledgment and the first cycle of a continued
\* data phase.
C11_Clock ==
    /\ [](clk <=> state \in PhaseStates)
    /\ [](state \in WaitStates \cup {"IDLE"} => ~clk)
    /\ [][bus_ack => state' \in WaitStates /\ ~clk']_vars
    /\ [][state \notin DataStates /\ state' \in DataStates /\ since_cmd' = 0 =>
            state \in WaitStates /\ ~clk]_vars

\* a continued write is about to start from a wait in which the clock is stopped
C11_Witness ==
    /\ state = "WAIT_SEND_MORE"
    /\ bus_stb /\ bus_we /\ bus_adr = next_addr
    /\ ~clk

\* C12: for every 8-bit opcode o and lanes in {1, 2, 4}, formatCommand(o, lanes) is
\* the word of 8 * lanes bits whose bit b * lanes is bit b of o (b = 0..7) and whose
\* every other bit is 1; formatCommand(0xEB, 4) = 0xFFFEFEFF and
\* formatCommand(o, 1) = o.
C12_Format ==
    fmt_out # <<>> =>
        /\ Width(fmt_out) = 8 * fmt_width
        /\ \A i \in 0..(8 * fmt_width - 1) :
              At(fmt_out, i) = IF i % fmt_width = 0 THEN Bit(fmt_cmd, i \div fmt_width)
                               ELSE 1
        /\ (fmt_cmd = _QIOFR /\ fmt_width = 4 => fmt_out = <<255, 254, 254, 255>>)
        /\ (fmt_width = 1 => fmt_out = <<fmt_cmd>>)

\* the quad read opcode has been formatted for four lanes
C12_Witness ==
    /\ fmt_cmd = _QIOFR
    /\ fmt_width = 4
    /\ fmt_out # <<>>

\* C13: in every SendData phase, one entered by continuation from WaitMore(Write)
\* included, the bits driven to the devices are exactly the writeData of the request
\* acknowledged at the end of that phase: cycle k of the phase drives group k of the
\* word, most significant first, its upper half to device 1 and its lower to device 2.
C13_WriteData ==
    state = "SEND_DATA" =>
        dq1_o * Pow2(spi_width) + dq2_o = bus_dat_w[phase_len]

AddrValue == Slice(AdrShifted, 0, addr_width)

\* C14: the addr_width bits shifted out during SendAddr, most significant first, are
\* the low addr_width bits of (address << 1): cycle k of the phase drives group k of
\* that value on the lanes of both devices.
C14_AddrBits ==
    state = "SEND_ADDR" =>
        /\ dq1_o = (AddrValue \div Pow2(addr_width - spi_width * phase_len)) % Pow2(spi_width)
        /\ dq2_o = dq1_o

\* the data phase that continues a burst of the direction of a WaitMore state
DataPhaseOf(w) == IF w = "WAIT_SEND_MORE" THEN "SEND_DATA" ELSE "RECV_DATA"

\* one cycle spent in a WaitMore state, as the burst rule describes it
WaitStep ==
    state \in WaitStates =>
    LET dir == (state = "WAIT_SEND_MORE")
    IN  /\ bus_stb /\ bus_we = dir /\ bus_adr = next_addr =>
              state' = DataPhaseOf(state) /\ next_addr' = bus_adr + 1
        /\ bus_stb /\ ~(bus_we = dir /\ bus_adr = next_addr) => state' = "IDLE"
        /\ ~bus_stb => state' = state /\ next_addr' = next_addr /\ sr' = sr

\* C15: from WaitMore(dir) a pending request enters a data phase without passing
\* through Idle if and only if its direction is dir and its address equals next_addr,
\* and then next_addr becomes that address + 1; any other pending request leads to
\* Idle; with no request pending the machine stays, next_addr and the shift register
\* unchanged.
C15_Continuation == [][WaitStep]_vars

\* a write at next_addr has just been taken from WaitMore(Write) into SendData
C15_Witness ==
    /\ state = "SEND_DATA"
    /\ phase_len = 1
    /\ since_cmd = 0
    /\ bus_stb /\ bus_we
    /\ next_addr = bus_adr + 1
    /\ prev.valid /\ prev.we

\* group k (1 = most significant) of 2 * spi_width bits of a data word
Group(word, k) ==
    Slice(word, wbone_width - 2 * spi_width * k, wbone_width - 2 * spi_width * (k - 1))

\* C16: on the acknowledgment cycle of every read, cold or continued, readData in big
\* mode consists of exactly dataWidth / (2 * lanes) consecutive captures of 2 * lanes
\* bits made during that transaction's RecvData phase, the earliest capture most
\* significant; no bit is left over from the command, the address or earlier captures.
C16_ReadData ==
    state = "RECV_DATA" /\ bus_ack /\ endianness = "big" =>
        /\ Len(cap_log) = DataLen
        /\ Width(bus_dat_r) = 2 * spi_width * DataLen
        /\ \A k \in 1..DataLen :
              Group(bus_dat_r, k) = cap_log[k][1] + Pow2(spi_width) * cap_log[k][2]

\* a read is acknowledged in big mode with stored data in its captures
C16_Witness ==
    /\ state = "RECV_DATA"
    /\ bus_ack
    /\ endianness = "big"
    /\ Len(cap_log) = DataLen
    /\ cap_log[1] # <<0, 0>>
    /\ cap_log[DataLen] # cap_log[1]

SendStates == {"SEND_CMD", "SEND_ADDR", "SEND_DATA"}

\* what the two devices are driven with, and when the lanes are outputs
DriveRule ==
    /\ state \in {"SEND_CMD", "SEND_ADDR"} =>
          /\ dq1_o = Slice(sr, SrWidth - spi_width, SrWidth)
          /\ dq2_o = Slice(sr, SrWidth - spi_width, SrWidth)
    /\ state = "SEND_DATA" =>
          /\ dq1_o = Slice(sr, SrWidth - spi_width, SrWidth)
          /\ dq2_o = Slice(sr, SrWidth - 2 * spi_width, SrWidth - spi_width)
    /\ dq_oe <=> state \in SendStates

\* the register advances in every cycle of the three phases
AdvanceAlways ==
    /\ state \in {"SEND_CMD", "SEND_ADDR"} => sr' = ShiftOut(spi_width)
    /\ state = "SEND_DATA" => sr' = ShiftOut(2 * spi_width)

\* the register advances, except that the last cycle of SendCmd loads address << 1
\* and the last cycle of the SendAddr of a write loads writeData
AdvanceOrLoad ==
    /\ state = "SEND_CMD" =>
          sr' = IF phase_len = CmdLen THEN AdrShifted ELSE ShiftOut(spi_width)
    /\ state = "SEND_ADDR" =>
          sr' = IF phase_len = AddrLen /\ is_write THEN bus_dat_w ELSE ShiftOut(spi_width)
    /\ state = "SEND_DATA" => sr' = ShiftOut(2 * spi_width)

\* C17 as stated: in every cycle of SendCmd and SendAddr both devices are driven with
\* the same top lanes bits of the register and the register advances by lanes bits;
\* in every cycle of SendData device A gets the top lanes bits, device B the next
\* lanes bits, and the register advances by 2 * lanes bits; the lanes are
\* output-enabled in exactly SendCmd, SendAddr and SendData.
C17_Original ==
    /\ []DriveRule
    /\ [][AdvanceAlways]_vars

\* C17, amended: as stated, except that on the last cycle of SendCmd the register is
\* loaded with address << 1 and on the last cycle of the SendAddr of a write with
\* writeData, instead of advancing.
C17_Amended ==
    /\ []DriveRule
    /\ [][AdvanceOrLoad]_vars

\* first cycle of a cold SendData: the register was loaded, the devices get
\* different halves
C17_Witness ==
    /\ state = "SEND_DATA"
    /\ phase_len = 1
    /\ since_cmd > 0
    /\ sr = bus_dat_w
    /\ dq1_o # dq2_o
    /\ dq_oe

\* a phase is entered from a WaitMore state that was occupied for WaitCap cycles or more
EntryAfterWait ==
    state \in WaitStates /\ phase_len = WaitCap /\ state' \in PhaseStates =>
        cycle_counter' = 0

\* C18: on the first cycle of every occupancy of a phase state (SendCmd, SendAddr,
\* SendData, RecvDummy, RecvData), entered from Idle, from the preceding phase or
\* from a WaitMore state after a wait of any length, the phase cycle counter is 0.
C18_CounterZero ==
    /\ [](state \in PhaseStates /\ phase_len = 1 => cycle_counter = 0)
    /\ [][EntryAfterWait]_vars

\* first cycle of a read data phase entered from WaitMore(Read)
C18_Witness ==
    /\ state = "RECV_DATA"
    /\ phase_len = 1
    /\ since_cmd = 0
    /\ cycle_counter = 0
    /\ cap_log = <<>>
    /\ bus_stb /\ ~bus_we

====
